---- MODULE Spec2Model ----
(***************************************************************************)
(* GitStorage (src/src/github-storage.ts): a handle on one GitHub          *)
(* repository used as a file store.  The handle holds owner, repo and      *)
(* defaultBranch; every asynchronous operation issues its requests to the  *)
(* remote API and suspends at each await, so calls of several callers      *)
(* interleave at the remote.                                               *)
(***************************************************************************)
EXTENDS Naturals, Sequences, FiniteSets, TLC

VARIABLES
  defaultBranch,   \* this.defaultBranch
  owner,           \* this.owner, a sequence of characters
  repo,            \* this.repo, a sequence of characters
  store,           \* the remote repository: branch -> file path -> entry
  repoDefault,     \* the remote repository's own default branch
  nextSha,         \* the next fresh version marker the remote hands out
  calls,           \* per caller: the asynchronous call in progress
  setOutcome,      \* what the last setDefaultBranch call did
  urlOutcome,      \* what the last getPathFromDownloadUrl call did
  codec            \* a file on its way through fileToBase64 and base64ToBlob

vars == <<defaultBranch, owner, repo, store, repoDefault, nextSha, calls,
          setOutcome, urlOutcome, codec>>

-----------------------------------------------------------------------------
(* Values *)

\* JavaScript's undefined, for an omitted argument or an absent field.
Undefined == "<undefined>"

\* `let sha: string | undefined`: markers are 1, 2, ...; 0 is undefined.
NoSha == 0

\* The largest version marker the remote hands out.
MaxRev == 3

\* The branches of the remote repository.
Branches == {"main", "dev"}

\* The file paths of the repository, inside the folder "d".
FilePaths == {"d/f"}
Folder == "d"

\* Payloads (base64 text): what the callers save, and what the repository
\* holds when the handle is constructed.
Payloads == {"QQ=="}
OtherPayload == "Qg=="

Callers == {"c1", "c2"}

\* `x || y` on strings: undefined and '' are falsy.
Truthy(s) == s # Undefined /\ s # ""
OrElse(a, b) == IF Truthy(a) THEN a ELSE b

-----------------------------------------------------------------------------
(* The remote API *)

NoFile == [kind |-> "none", sha |-> NoSha, content |-> ""]
FileEntry(sha, content) == [kind |-> "file", sha |-> sha, content |-> content]

\* GET /repos/{owner}/{repo}/contents/{path}?ref=: what the path resolves to.
\* "file" with the entry, "list" for the folder, "notfound" otherwise.
Resolve(st, path, ref) ==
  IF ref \notin Branches THEN [kind |-> "notfound", sha |-> NoSha, content |-> ""]
  ELSE IF path \in FilePaths THEN
         IF st[ref][path].kind = "file"
         THEN [kind |-> "file", sha |-> st[ref][path].sha,
               content |-> st[ref][path].content]
         ELSE [kind |-> "notfound", sha |-> NoSha, content |-> ""]
  ELSE IF path = Folder /\ \E p \in FilePaths : st[ref][p].kind = "file"
         THEN [kind |-> "list", sha |-> NoSha, content |-> ""]
  ELSE [kind |-> "notfound", sha |-> NoSha, content |-> ""]

\* The payload of a read that resolves to the folder: one entry per file in it.
RECURSIVE Entries(_, _, _)
Entries(st, ref, paths) ==
  IF paths = {} THEN <<>>
  ELSE LET p == CHOOSE q \in paths : TRUE
       IN (IF st[ref][p].kind = "file" THEN <<p>> ELSE <<>>)
          \o Entries(st, ref, paths \ {p})
Listing(st, path, ref) ==
  IF Resolve(st, path, ref).kind = "list" THEN Entries(st, ref, FilePaths) ELSE <<>>

\* The branch a write or delete request lands on: its `branch` field, or the
\* repository's default branch when the request carries none.
TargetBranch(req) == IF req.branch = Undefined THEN repoDefault ELSE req.branch
\* What the addressed path holds on that branch.
Target(req) == store[TargetBranch(req)][req.path]

-----------------------------------------------------------------------------
(* Requests and calls *)

ReadReq(path, ref) ==
  [api |-> "repos.getContent", path |-> path, ref |-> ref,
   message |-> Undefined, content |-> Undefined, sha |-> NoSha,
   branch |-> Undefined, useBranch |-> Undefined, status |-> "sent",
   seenKind |-> "none", seenSha |-> NoSha]

IdleCall ==
  [op |-> "none", pc |-> "idle", path |-> Undefined, message |-> Undefined,
   branch |-> Undefined, skipCheck |-> FALSE, base64 |-> Undefined,
   useBranch |-> Undefined, sha |-> NoSha, reqs |-> <<>>,
   outcome |-> "none", error |-> "", value |-> Undefined, retSha |-> NoSha,
   items |-> <<>>, during |-> {}]

\* No file is being converted.
NoCodec ==
  [stage |-> "none", file |-> <<>>, type |-> <<>>, text |-> <<>>, blob |-> <<>>,
   threw |-> FALSE, error |-> "", breaks |-> 0]

-----------------------------------------------------------------------------
(* setDefaultBranch *)

\* A slip: the assignment made before the check.
setDefaultBranch_assignFirst(branch) ==
  /\ defaultBranch' = branch
  /\ setOutcome' = [arg |-> branch, threw |-> ~Truthy(branch),
                    error |-> IF Truthy(branch) THEN ""
                              ELSE "Branch name cannot be empty",
                    before |-> defaultBranch]
  /\ UNCHANGED <<owner, repo, store, repoDefault, nextSha, calls, urlOutcome, codec>>

setDefaultBranch(branch) ==
  /\ IF ~Truthy(branch)
     THEN /\ setOutcome' = [arg |-> branch, threw |-> TRUE,
                            error |-> "Branch name cannot be empty",
                            before |-> defaultBranch]
          /\ UNCHANGED defaultBranch
     ELSE /\ defaultBranch' = branch
          /\ setOutcome' = [arg |-> branch, threw |-> FALSE, error |-> "",
                            before |-> defaultBranch]
  /\ UNCHANGED <<owner, repo, store, repoDefault, nextSha, calls, urlOutcome, codec>>

-----------------------------------------------------------------------------
(* The asynchronous operations.  An operation runs from its invocation to  *)
(* its first await in one step (the request is sent), and each response    *)
(* resumes it up to the next await or its return.                          *)

Ready(c) == calls[c].pc \in {"idle", "done"}

Send(call, req) == [call EXCEPT !.reqs = Append(@, req)]
LastReq(call) == call.reqs[Len(call.reqs)]
\* The remote serves the call's pending request: `status` is the answer, and
\* seenKind/seenSha record what the addressed path held at that moment.
Answered(call, status, seen) ==
  [call EXCEPT !.reqs[Len(call.reqs)].status = status,
               !.reqs[Len(call.reqs)].seenKind = seen.kind,
               !.reqs[Len(call.reqs)].seenSha = seen.sha]

\* Caller c starts `call`; `during` keeps the callers whose current call
\* overlaps this one in time.
Invoke(c, call) ==
  calls' = [d \in DOMAIN calls |->
     IF d = c
     THEN [call EXCEPT !.during = {e \in DOMAIN calls \ {c} :
                                     calls[e].pc \notin {"idle", "done"}}]
     ELSE [calls[d] EXCEPT !.during = @ \ {c}]]

Returned(call, value, sha) ==
  [call EXCEPT !.pc = "done", !.outcome = "returned", !.value = value, !.retSha = sha]
Threw(call, error) ==
  [call EXCEPT !.pc = "done", !.outcome = "threw", !.error = error]

UnchangedHandle ==
  UNCHANGED <<defaultBranch, owner, repo, setOutcome, urlOutcome, codec>>
UnchangedRemote == UNCHANGED <<store, repoDefault, nextSha>>

\* What a getContent request can be answered with: the path as it resolves
\* at that moment, or a failure of the request itself (permission, network).
Seen(req) == Resolve(store, req.path, req.ref)
ReadAnswers(req) == {Seen(req).kind, "failed"}

\* getFileSha: the request it sends ...
getFileShaRequest(path, branch) == ReadReq(path, OrElse(branch, defaultBranch))
\* ... and what it returns for an answer: data?.sha, or undefined from the catch.
getFileShaResult(req, answer) ==
  IF answer = "file" THEN Seen(req).sha ELSE NoSha

getFileSha(c, path, branch) ==
  /\ Ready(c)
  /\ Invoke(c,
       Send([IdleCall EXCEPT !.op = "getFileSha", !.pc = "probe", !.path = path,
                             !.branch = branch],
            getFileShaRequest(path, branch)))
  /\ UnchangedHandle /\ UnchangedRemote

\* A slip: the catch left out, a failed read thrown on.
getFileShaAnswered_noCatch(c) ==
  /\ calls[c].op = "getFileSha" /\ calls[c].pc = "probe"
  /\ \E answer \in ReadAnswers(LastReq(calls[c])) :
       calls' = [calls EXCEPT ![c] =
         IF answer \in {"notfound", "failed"}
         THEN Threw(Answered(@, answer, Seen(LastReq(calls[c]))), "HttpError")
         ELSE Returned(Answered(@, answer, Seen(LastReq(calls[c]))), Undefined,
                       getFileShaResult(LastReq(calls[c]), answer))]
  /\ UnchangedHandle /\ UnchangedRemote

getFileShaAnswered(c) ==
  /\ calls[c].op = "getFileSha" /\ calls[c].pc = "probe"
  /\ \E answer \in ReadAnswers(LastReq(calls[c])) :
       calls' = [calls EXCEPT ![c] =
         Returned(Answered(@, answer, Seen(LastReq(calls[c]))), Undefined,
                  getFileShaResult(LastReq(calls[c]), answer))]
  /\ UnchangedHandle /\ UnchangedRemote

\* A slip: the two verbs exchanged.
commitMsg_swapped(message, sha, path) ==
  IF message # Undefined THEN message
  ELSE (IF sha # NoSha THEN "Create" ELSE "Update") \o " " \o path

\* saveFile, line 186: message ?? `${sha ? 'Update' : 'Create'} ${path}`
commitMsg(message, sha, path) ==
  IF message # Undefined THEN message
  ELSE (IF sha # NoSha THEN "Update" ELSE "Create") \o " " \o path

\* saveFile, lines 187-195: the fields of the createOrUpdateFileContents call.
\* The resolved branch is passed under the key `useBranch`; the request has
\* no `branch` field.
saveFileRequest(path, message, base64, sha, useBranch) ==
  [api |-> "repos.createOrUpdateFileContents", path |-> path, ref |-> Undefined,
   message |-> commitMsg(message, sha, path), content |-> base64, sha |-> sha,
   branch |-> Undefined, useBranch |-> useBranch, status |-> "sent",
   seenKind |-> "none", seenSha |-> NoSha]

saveFile(c, base64, path, message, branch, skipCheck) ==
  /\ Ready(c)
  /\ LET call == [IdleCall EXCEPT !.op = "saveFile", !.path = path,
                    !.message = message, !.branch = branch, !.base64 = base64,
                    !.skipCheck = skipCheck,
                    !.useBranch = OrElse(branch, defaultBranch)]
     IN Invoke(c,
          IF ~skipCheck
          THEN Send([call EXCEPT !.pc = "probe"], getFileShaRequest(path, branch))
          ELSE Send([call EXCEPT !.pc = "write"],
                    saveFileRequest(path, message, base64, NoSha, call.useBranch)))
  /\ UnchangedHandle /\ UnchangedRemote

saveFileProbed(c) ==
  /\ calls[c].op = "saveFile" /\ calls[c].pc = "probe"
  /\ \E answer \in ReadAnswers(LastReq(calls[c])) :
       LET sha == getFileShaResult(LastReq(calls[c]), answer)
           call == [Answered(calls[c], answer, Seen(LastReq(calls[c])))
                      EXCEPT !.sha = sha, !.pc = "write"]
       IN calls' = [calls EXCEPT ![c] =
            Send(call, saveFileRequest(call.path, call.message, call.base64,
                                       sha, call.useBranch))]
  /\ UnchangedHandle /\ UnchangedRemote

\* PUT /repos/{owner}/{repo}/contents/{path}: the remote accepts a write to an
\* existing file only with the file's current marker, and a write to an absent
\* path when no marker is supplied.  A marker supplied for an absent path is
\* accepted or rejected.
WriteAnswers(req) ==
  LET entry == Target(req)
  IN {"failed"} \cup
     (IF entry.kind = "file"
      THEN IF req.sha = entry.sha THEN {"updated"}
           ELSE IF req.sha = NoSha THEN {"rejected"} ELSE {"conflict"}
      ELSE IF req.sha = NoSha THEN {"created"} ELSE {"created", "rejected"})

\* A slip: a rejected write answered by probing and writing again.
saveFileWritten_retry(c) ==
  /\ calls[c].op = "saveFile" /\ calls[c].pc = "write"
  /\ LET req == LastReq(calls[c])
     IN \E answer \in WriteAnswers(req) :
          IF answer \in {"created", "updated"}
          THEN /\ nextSha <= MaxRev
               /\ store' = [store EXCEPT ![TargetBranch(req)][req.path] =
                              FileEntry(nextSha, req.content)]
               /\ nextSha' = nextSha + 1
               /\ calls' = [calls EXCEPT ![c] =
                    Returned(Answered(@, answer, Target(req)), "data", nextSha)]
               /\ UNCHANGED repoDefault
          ELSE /\ Len(calls[c].reqs) < 4
               /\ calls' = [calls EXCEPT ![c] =
                    Send([Answered(@, answer, Target(req)) EXCEPT !.pc = "probe"],
                         ReadReq(req.path, calls[c].useBranch))]
               /\ UnchangedRemote
  /\ UnchangedHandle

\* A slip: a write refused for its marker sent again with the marker the file
\* has by then.
saveFileWritten_force(c) ==
  /\ calls[c].op = "saveFile" /\ calls[c].pc = "write"
  /\ LET req == LastReq(calls[c])
     IN \E answer \in WriteAnswers(req) :
          IF answer \in {"created", "updated"}
          THEN /\ nextSha <= MaxRev
               /\ store' = [store EXCEPT ![TargetBranch(req)][req.path] =
                              FileEntry(nextSha, req.content)]
               /\ nextSha' = nextSha + 1
               /\ calls' = [calls EXCEPT ![c] =
                    Returned(Answered(@, answer, Target(req)), "data", nextSha)]
               /\ UNCHANGED repoDefault
          ELSE IF answer = "conflict" /\ Len(calls[c].reqs) < 3
          THEN /\ calls' = [calls EXCEPT ![c] =
                    Send(Answered(@, answer, Target(req)),
                         [req EXCEPT !.sha = Target(req).sha])]
               /\ UnchangedRemote
          ELSE /\ calls' = [calls EXCEPT ![c] = Threw(Answered(@, answer, Target(req)), "HttpError")]
               /\ UnchangedRemote
  /\ UnchangedHandle

saveFileWritten(c) ==
  /\ calls[c].op = "saveFile" /\ calls[c].pc = "write"
  /\ LET req == LastReq(calls[c])
     IN \E answer \in WriteAnswers(req) :
          IF answer \in {"created", "updated"}
          THEN /\ nextSha <= MaxRev
               /\ store' = [store EXCEPT ![TargetBranch(req)][req.path] =
                              FileEntry(nextSha, req.content)]
               /\ nextSha' = nextSha + 1
               /\ calls' = [calls EXCEPT ![c] =
                    Returned(Answered(@, answer, Target(req)), "data", nextSha)]
               /\ UNCHANGED repoDefault
          ELSE /\ calls' = [calls EXCEPT ![c] = Threw(Answered(@, answer, Target(req)), "HttpError")]
               /\ UnchangedRemote
  /\ UnchangedHandle

\* deleteFile, lines 298-305: the fields of the repos.deleteFile call.
deleteFileRequest(path, sha, useBranch) ==
  [api |-> "repos.deleteFile", path |-> path, ref |-> Undefined,
   message |-> "Delete " \o path, content |-> Undefined, sha |-> sha,
   branch |-> Undefined, useBranch |-> useBranch, status |-> "sent",
   seenKind |-> "none", seenSha |-> NoSha]

deleteFile(c, path, branch) ==
  /\ Ready(c)
  /\ Invoke(c,
       Send([IdleCall EXCEPT !.op = "deleteFile", !.pc = "probe", !.path = path,
                             !.branch = branch,
                             !.useBranch = OrElse(branch, defaultBranch)],
            getFileShaRequest(path, branch)))
  /\ UnchangedHandle /\ UnchangedRemote

\* A slip: the `if (!sha) throw` guard left out.
deleteFileProbed_noGuard(c) ==
  /\ calls[c].op = "deleteFile" /\ calls[c].pc = "probe"
  /\ \E answer \in ReadAnswers(LastReq(calls[c])) :
       LET sha == getFileShaResult(LastReq(calls[c]), answer)
           call == [Answered(calls[c], answer, Seen(LastReq(calls[c]))) EXCEPT !.sha = sha]
       IN calls' = [calls EXCEPT ![c] =
            Send([call EXCEPT !.pc = "delete"],
                 deleteFileRequest(call.path, sha, call.useBranch))]
  /\ UnchangedHandle /\ UnchangedRemote

deleteFileProbed(c) ==
  /\ calls[c].op = "deleteFile" /\ calls[c].pc = "probe"
  /\ \E answer \in ReadAnswers(LastReq(calls[c])) :
       LET sha == getFileShaResult(LastReq(calls[c]), answer)
           call == [Answered(calls[c], answer, Seen(LastReq(calls[c]))) EXCEPT !.sha = sha]
       IN calls' = [calls EXCEPT ![c] =
            IF sha = NoSha THEN Threw(call, "File not found")
            ELSE Send([call EXCEPT !.pc = "delete"],
                      deleteFileRequest(call.path, sha, call.useBranch))]
  /\ UnchangedHandle /\ UnchangedRemote

\* DELETE /repos/{owner}/{repo}/contents/{path}: needs the current marker.
DeleteAnswers(req) ==
  LET entry == Target(req)
  IN {"failed"} \cup
     (IF entry.kind = "file"
      THEN IF req.sha = entry.sha THEN {"deleted"} ELSE {"conflict"}
      ELSE {"notfound"})

\* A slip: the failure of the delete call swallowed.
deleteFileDeleted_swallow(c) ==
  /\ calls[c].op = "deleteFile" /\ calls[c].pc = "delete"
  /\ LET req == LastReq(calls[c])
     IN \E answer \in DeleteAnswers(req) :
          /\ calls' = [calls EXCEPT ![c] =
               Returned(Answered(@, answer, Target(req)), "{path, deleted: true}", NoSha)]
          /\ IF answer = "deleted"
             THEN /\ store' = [store EXCEPT ![TargetBranch(req)][req.path] = NoFile]
                  /\ UNCHANGED <<repoDefault, nextSha>>
             ELSE UnchangedRemote
  /\ UnchangedHandle

\* A slip: a refused delete sent once more.
deleteFileDeleted_retry(c) ==
  /\ calls[c].op = "deleteFile" /\ calls[c].pc = "delete"
  /\ LET req == LastReq(calls[c])
     IN \E answer \in DeleteAnswers(req) :
          IF answer = "deleted"
          THEN /\ store' = [store EXCEPT ![TargetBranch(req)][req.path] = NoFile]
               /\ calls' = [calls EXCEPT ![c] =
                    Returned(Answered(@, answer, Target(req)), "{path, deleted: true}", NoSha)]
               /\ UNCHANGED <<repoDefault, nextSha>>
          ELSE /\ Len(calls[c].reqs) < 3
               /\ calls' = [calls EXCEPT ![c] =
                    Send(Answered(@, answer, Target(req)),
                         deleteFileRequest(req.path, req.sha, req.useBranch))]
               /\ UnchangedRemote
  /\ UnchangedHandle

deleteFileDeleted(c) ==
  /\ calls[c].op = "deleteFile" /\ calls[c].pc = "delete"
  /\ LET req == LastReq(calls[c])
     IN \E answer \in DeleteAnswers(req) :
          IF answer = "deleted"
          THEN /\ store' = [store EXCEPT ![TargetBranch(req)][req.path] = NoFile]
               /\ calls' = [calls EXCEPT ![c] =
                    Returned(Answered(@, answer, Target(req)), "{path, deleted: true}", NoSha)]
               /\ UNCHANGED <<repoDefault, nextSha>>
          ELSE /\ calls' = [calls EXCEPT ![c] = Threw(Answered(@, answer, Target(req)), "HttpError")]
               /\ UnchangedRemote
  /\ UnchangedHandle

\* getRepoInfo: one repos.get call for owner/repo, its response handed on.
getRepoInfoRequest ==
  [ReadReq(Undefined, Undefined) EXCEPT !.api = "repos.get"]
\* repos.get is answered with the repository or with a failure.
RepoAnswers == {"ok", "failed"}

getRepoInfo(c) ==
  /\ Ready(c)
  /\ Invoke(c, Send([IdleCall EXCEPT !.op = "getRepoInfo", !.pc = "info"],
                    getRepoInfoRequest))
  /\ UnchangedHandle /\ UnchangedRemote

getRepoInfoAnswered(c) ==
  /\ calls[c].op = "getRepoInfo" /\ calls[c].pc = "info"
  /\ \E answer \in RepoAnswers :
       calls' = [calls EXCEPT ![c] =
         IF answer = "ok"
         THEN Returned(Answered(@, answer, [kind |-> "none", sha |-> NoSha]),
                       "response", NoSha)
         ELSE Threw(Answered(@, answer, [kind |-> "none", sha |-> NoSha]), "HttpError")]
  /\ UnchangedHandle /\ UnchangedRemote

\* listFiles(folder, branch = 'main') and downloadFile(path, branch = 'main'):
\* a default parameter replaces undefined only.
DefaultMain(branch) == IF branch = Undefined THEN "main" ELSE branch

listFiles(c, folder, branch) ==
  /\ Ready(c)
  /\ Invoke(c,
       Send([IdleCall EXCEPT !.op = "listFiles", !.pc = "read", !.path = folder,
                             !.branch = branch],
            ReadReq(folder, DefaultMain(branch))))
  /\ UnchangedHandle /\ UnchangedRemote

\* A slip: a single file wrapped into a one-element array.
listFilesResult_wrap(req, answer) ==
  IF answer = "list" THEN Listing(store, req.path, req.ref) ELSE <<req.path>>

\* listFiles, line 117: Array.isArray(res.data) ? res.data : []
listFilesResult(req, answer) ==
  IF answer = "list" THEN Listing(store, req.path, req.ref) ELSE <<>>

listFilesAnswered(c) ==
  /\ calls[c].op = "listFiles" /\ calls[c].pc = "read"
  /\ \E answer \in ReadAnswers(LastReq(calls[c])) :
       LET req == LastReq(calls[c])
           call == Answered(calls[c], answer, Seen(req))
       IN calls' = [calls EXCEPT ![c] =
            IF answer \in {"list", "file"}
            THEN [Returned(call, "array", NoSha)
                    EXCEPT !.items = listFilesResult(req, answer)]
            ELSE Threw(call, "HttpError")]
  /\ UnchangedHandle /\ UnchangedRemote

downloadFile(c, path, branch) ==
  /\ Ready(c)
  /\ Invoke(c,
       Send([IdleCall EXCEPT !.op = "downloadFile", !.pc = "read", !.path = path,
                             !.branch = branch],
            ReadReq(path, DefaultMain(branch))))
  /\ UnchangedHandle /\ UnchangedRemote

\* The encoding field of a file payload: "base64", "none" (a file too large
\* to be sent inline), or no such field.
Encodings == {"base64", "none", Undefined}

\* downloadFile, line 227: data.encoding === 'base64' ? data : null.  A
\* listing is an array and has no encoding.
downloadFileResult(answer, encoding) ==
  IF answer = "file" /\ encoding = "base64" THEN "data" ELSE "null"

downloadFileAnswered(c) ==
  /\ calls[c].op = "downloadFile" /\ calls[c].pc = "read"
  /\ \E answer \in ReadAnswers(LastReq(calls[c])), encoding \in Encodings :
       calls' = [calls EXCEPT ![c] =
         IF answer \in {"file", "list"}
         THEN Returned(Answered(@, answer, Seen(LastReq(calls[c]))),
                       downloadFileResult(answer, encoding),
                       IF downloadFileResult(answer, encoding) = "data"
                       THEN Seen(LastReq(calls[c])).sha ELSE NoSha)
         ELSE Threw(Answered(@, answer, Seen(LastReq(calls[c]))), "HttpError")]
  /\ UnchangedHandle /\ UnchangedRemote

-----------------------------------------------------------------------------
\* The arguments the callers pass.
BranchArgs == {Undefined, "", "dev"}
RefArgs == {Undefined, "dev"}
MessageArgs == {Undefined, "msg"}
RaceBranchArgs == {Undefined, "dev"}
ReadPaths == FilePaths \cup {Folder}

\* The repository as it can be when the handle is constructed.
InitialStores ==
  { [b \in Branches |-> [p \in FilePaths |->
       IF p \in present[b] THEN FileEntry(1, OtherPayload) ELSE NoFile]] :
    present \in [Branches -> SUBSET FilePaths] }

Init ==

  /\ \E opt \in {Undefined, "", "main", "dev"} : defaultBranch = OrElse(opt, "main")
  /\ owner = <<"o">>
  /\ repo = <<"r">>
  /\ store \in InitialStores
  /\ repoDefault \in Branches
  /\ nextSha = 2
  /\ calls = [c \in Callers |-> IdleCall]
  /\ setOutcome = [arg |-> Undefined, threw |-> FALSE, error |-> "", before |-> Undefined]
  /\ urlOutcome = [url |-> <<>>, matched |-> FALSE, path |-> <<>>, threw |-> FALSE]
  /\ codec = NoCodec

\* One caller using every operation of the handle, one call after the other.
Next ==
  \/ \E b \in {"", " ", "main", "dev"} : setDefaultBranch(b)
  \/ \E p \in ReadPaths, b \in BranchArgs : getFileSha("c1", p, b)
  \/ getFileShaAnswered("c1")
  \/ \E x \in Payloads, p \in FilePaths, m \in MessageArgs,
        b \in BranchArgs, k \in BOOLEAN : saveFile("c1", x, p, m, b, k)
  \/ saveFileProbed("c1")
  \/ saveFileWritten("c1")
  \/ \E p \in FilePaths, b \in BranchArgs : deleteFile("c1", p, b)
  \/ deleteFileProbed("c1")
  \/ deleteFileDeleted("c1")
  \/ \E p \in ReadPaths, b \in RefArgs : listFiles("c1", p, b)
  \/ listFilesAnswered("c1")
  \/ \E p \in ReadPaths, b \in RefArgs : downloadFile("c1", p, b)
  \/ downloadFileAnswered("c1")
  \/ getRepoInfo("c1")
  \/ getRepoInfoAnswered("c1")

Spec == Init /\ [][Next]_vars

\* Two callers saving and deleting concurrently through one handle.
RaceNext ==
  \/ \E c \in Callers, x \in Payloads, p \in FilePaths,
        b \in RaceBranchArgs, k \in BOOLEAN : saveFile(c, x, p, Undefined, b, k)
  \/ \E c \in Callers : saveFileProbed(c)
  \/ \E c \in Callers : saveFileWritten(c)
  \/ \E c \in Callers, p \in FilePaths, b \in RaceBranchArgs : deleteFile(c, p, b)
  \/ \E c \in Callers : deleteFileProbed(c)
  \/ \E c \in Callers : deleteFileDeleted(c)

RaceSpec == Init /\ [][RaceNext]_vars

-----------------------------------------------------------------------------
(* getPathFromDownloadUrl.  Strings are sequences of one-character strings. *)

\* "https://raw.githubusercontent.com/"
RawHost ==
  << "h", "t", "t", "p", "s", ":", "/", "/", "r", "a", "w", ".", "g", "i",
     "t", "h", "u", "b", "u", "s", "e", "r", "c", "o", "n", "t", "e", "n",
     "t", ".", "c", "o", "m", "/" >>

\* The line terminators of a JavaScript string: LF, CR, U+2028 and U+2029
\* (the last two written as one-element stand-ins).
LineSeparator == "<U+2028>"
ParagraphSeparator == "<U+2029>"
LineTerminators == {"\n", "\r", LineSeparator, ParagraphSeparator}

\* A token of the regular expression: a literal character or `.`, with its
\* quantifier ("1" for none; "+", "*", "?" and the lazy "+?", "*?", "??").
\* `op` marks a quantifier character of the source not yet attached.
Lit(ch) == [any |-> FALSE, ch |-> ch, quant |-> "1", op |-> FALSE]
AnyChar == [any |-> TRUE, ch |-> ".", quant |-> "1", op |-> FALSE]
\* `.` (no s flag) takes every character but a line terminator.
TokenMatches(tok, ch) == IF tok.any THEN ch \notin LineTerminators ELSE tok.ch = ch

\* The host part of the pattern, its dots escaped: literal characters.
Literal(str) == [k \in 1..Len(str) |-> Lit(str[k])]
\* ${this.owner} and ${this.repo} are put into the pattern as they are: a `.`
\* in them is the pattern's wildcard, a "+", "*" or "?" a quantifier.
QuantifierChars == {"+", "*", "?"}
Interpolated(str) ==
  [k \in 1..Len(str) |->
     IF str[k] = "." THEN AnyChar
     ELSE IF str[k] \in QuantifierChars THEN [Lit(str[k]) EXCEPT !.op = TRUE]
     ELSE Lit(str[k])]
\* The characters whose meaning in a pattern is not modelled: a handle whose
\* owner or repo holds one of them is left out.
UnmodelledChars == {"(", ")", "[", "]", "{", "}", "|", "^", "$", "\\"}
Modelled(str) == \A k \in 1..Len(str) : str[k] \notin UnmodelledChars

\* A quantifier goes to the token before it; "?" after a quantifier makes it
\* lazy; any other quantifier after a quantifier is a syntax error.
RECURSIVE Quantified(_, _, _)
Quantified(raw, k, acc) ==
  IF k > Len(raw) THEN acc
  ELSE IF ~raw[k].op THEN Quantified(raw, k + 1, Append(acc, raw[k]))
  ELSE LET prev == acc[Len(acc)]
           q == IF prev.quant = "1" THEN raw[k].ch
                ELSE IF prev.quant \in QuantifierChars /\ raw[k].ch = "?"
                  THEN prev.quant \o "?"
                ELSE "error"
       IN Quantified(raw, k + 1, [acc EXCEPT ![Len(acc)].quant = q])

\* new RegExp(`https://raw\\.githubusercontent\\.com/${owner}/${repo}/[^/]+/(.+)`),
\* up to the branch segment.
UrlPattern(o, r) ==
  Quantified(Literal(RawHost) \o Interpolated(o) \o <<Lit("/")>>
               \o Interpolated(r) \o <<Lit("/")>>, 1, <<>>)
\* new RegExp throws a SyntaxError on such a pattern.
PatternThrows(pat) == \E k \in 1..Len(pat) : pat[k].quant = "error"

\* The characters from position j on that `[^/]+` takes: all up to the next "/".
RECURSIVE BranchEnd(_, _)
BranchEnd(url, j) ==
  IF j > Len(url) \/ url[j] = "/" THEN j ELSE BranchEnd(url, j + 1)

\* `[^/]+/(.+)` matches from position j: a branch segment of one character or
\* more, a "/", and a group that begins with a character `.` takes.
TailMatches(url, j) ==
  LET e == BranchEnd(url, j)
  IN e > j /\ e < Len(url) /\ url[e + 1] \notin LineTerminators

\* The backtracking match of the tokens k.. from position i, in the order the
\* engine tries: where the branch segment begins in the first way that
\* succeeds, 0 when none does.
FirstOf(a, b) == IF a # 0 THEN a ELSE b
RECURSIVE MatchFrom(_, _, _, _)
RECURSIVE Repeat(_, _, _, _)
MatchFrom(url, pat, k, i) ==
  IF k > Len(pat) THEN (IF TailMatches(url, i) THEN i ELSE 0)
  ELSE LET q == pat[k].quant
           one == i <= Len(url) /\ TokenMatches(pat[k], url[i])
           taken == IF one THEN MatchFrom(url, pat, k + 1, i + 1) ELSE 0
           skipped == MatchFrom(url, pat, k + 1, i)
       IN IF q = "1" THEN taken
          ELSE IF q \in {"+", "+?"} THEN (IF one THEN Repeat(url, pat, k, i + 1) ELSE 0)
          ELSE IF q \in {"*", "*?"} THEN Repeat(url, pat, k, i)
          ELSE IF q = "?" THEN FirstOf(taken, skipped)
          ELSE FirstOf(skipped, taken)
\* Token k may be repeated further from position i, or left.
Repeat(url, pat, k, i) ==
  LET one == i <= Len(url) /\ TokenMatches(pat[k], url[i])
      more == IF one THEN Repeat(url, pat, k, i + 1) ELSE 0
      stop == MatchFrom(url, pat, k + 1, i)
  IN IF pat[k].quant \in {"+", "*"} THEN FirstOf(more, stop) ELSE FirstOf(stop, more)

\* The pattern matches at position i.
MatchesAt(url, pat, i) == MatchFrom(url, pat, 1, i) # 0

\* match[1] of the match at position i: (.+) runs to the next line terminator.
RECURSIVE LineEnd(_, _)
LineEnd(url, j) ==
  IF j > Len(url) \/ url[j] \in LineTerminators THEN j ELSE LineEnd(url, j + 1)
Group1(url, pat, i) ==
  LET e == BranchEnd(url, MatchFrom(url, pat, 1, i))
  IN SubSeq(url, e + 1, LineEnd(url, e + 1) - 1)

\* str.split('?')[0]
RECURSIVE BeforeQuery(_)
BeforeQuery(str) ==
  IF str = <<>> \/ Head(str) = "?" THEN <<>>
  ELSE <<Head(str)>> \o BeforeQuery(Tail(str))

\* url.match(regex) is unanchored: the leftmost position that matches.
MatchPositions(url, pat) == {i \in 1..Len(url) : MatchesAt(url, pat, i)}
Leftmost(S) == CHOOSE i \in S : \A k \in S : i <= k

getPathFromDownloadUrl(url) ==
  /\ Modelled(owner) /\ Modelled(repo)
  /\ LET pat == UrlPattern(owner, repo)
         found == MatchPositions(url, pat)
     IN urlOutcome' =
          IF PatternThrows(pat)
          THEN [url |-> url, matched |-> FALSE, path |-> <<>>, threw |-> TRUE]
          ELSE IF found = {}
          THEN [url |-> url, matched |-> FALSE, path |-> <<>>, threw |-> FALSE]
          ELSE [url |-> url, matched |-> TRUE, threw |-> FALSE,
                path |-> BeforeQuery(Group1(url, pat, Leftmost(found)))]
  /\ UNCHANGED <<defaultBranch, owner, repo, store, repoDefault, nextSha, calls,
                 setOutcome, codec>>

\* The handles and the URLs tried.
OwnerNames == {<<"o">>, <<"p">>, <<"o", "+">>}
RepoNames == {<<"r">>, <<"r", ".", "s">>, <<"r", "*", "?">>, <<"r", "+", "+">>}
\* The owner and repo segments of the URLs.
UrlOwners == {<<"o">>, <<"p">>}
UrlRepos == {<<"r">>, <<"r", ".", "s">>, <<"r", "-", "s">>}
BranchSegments == {<<"m">>, <<"d", "e", "v">>}
PathTexts == {<<"f">>, <<"d", "/", "f">>,
              RawHost \o <<"o", "/", "r", "/", "m", "/", "f">>}
QueryTexts == {<<>>, <<"?", "t", "=", "X">>}

RawUrl(o, r, branch, path, query) ==
  RawHost \o o \o <<"/">> \o r \o <<"/">> \o branch \o <<"/">> \o path \o query

\* URLs with a repeated or left-out character, and with line terminators.
OddUrls ==
  {RawHost \o tail : tail \in
     {<<"o", "o", "/", "r", "/", "m", "/", "f">>,
      <<"o", "/", "/", "m", "/", "f">>,
      <<"o", "/", "r", "r", "/", "m", "/", "f">>,
      <<"o", "/", "r", "\r", "s", "/", "m", "/", "f">>,
      <<"o", "/", "r", "/", "m", "/", "\r", "f">>,
      <<"o", "/", "r", "/", "m", "/", "f", "\r", "g">>,
      <<"o", "/", "r", "/", "m", "/", "f", LineSeparator, "g">>,
      <<"o", "/", "r", "/", "m", "/", ParagraphSeparator>>,
      <<"o", "/", "r", "/", "m", "/", "f", "\n", "g">>,
      <<"o", "/", "r", "/", "\n", "/", "f">>}}

Urls ==
  { RawUrl(o, r, b, p, q) : o \in UrlOwners, r \in UrlRepos,
                            b \in BranchSegments, p \in PathTexts, q \in QueryTexts }
  \cup {<<>>, RawHost, RawHost \o <<"o", "/", "r", "/", "m">>,
        RawHost \o <<"o", "/", "r", "/", "m", "/">>}
  \cup OddUrls

UrlInit ==
  /\ owner \in OwnerNames
  /\ repo \in RepoNames
  /\ defaultBranch = "main"
  /\ store = [b \in Branches |-> [p \in FilePaths |-> NoFile]]
  /\ repoDefault = "main"
  /\ nextSha = 2
  /\ calls = [c \in Callers |-> IdleCall]
  /\ setOutcome = [arg |-> Undefined, threw |-> FALSE, error |-> "", before |-> Undefined]
  /\ urlOutcome = [url |-> <<>>, matched |-> FALSE, path |-> <<>>, threw |-> FALSE]
  /\ codec = NoCodec

UrlNext == \E url \in Urls : getPathFromDownloadUrl(url)

UrlSpec == UrlInit /\ [][UrlNext]_vars

-----------------------------------------------------------------------------
(* fileToBase64 and base64ToBlob.  A file is a sequence of bytes 0..255,   *)
(* a text a sequence of one-character strings.                             *)

Base64Alphabet ==
  << "A", "B", "C", "D", "E", "F", "G", "H", "I", "J", "K", "L", "M", "N",
     "O", "P", "Q", "R", "S", "T", "U", "V", "W", "X", "Y", "Z", "a", "b",
     "c", "d", "e", "f", "g", "h", "i", "j", "k", "l", "m", "n", "o", "p",
     "q", "r", "s", "t", "u", "v", "w", "x", "y", "z", "0", "1", "2", "3",
     "4", "5", "6", "7", "8", "9", "+", "/" >>
Base64Char(n) == Base64Alphabet[n + 1]
Base64Value(ch) == (CHOOSE i \in 1..64 : Base64Alphabet[i] = ch) - 1
IsBase64Char(ch) == \E i \in 1..64 : Base64Alphabet[i] = ch

\* The base64 text of a byte sequence, as FileReader.readAsDataURL writes it.
RECURSIVE Base64Encode(_)
Base64Encode(b) ==
  IF Len(b) = 0 THEN <<>>
  ELSE IF Len(b) = 1 THEN
    <<Base64Char(b[1] \div 4), Base64Char((b[1] % 4) * 16), "=", "=">>
  ELSE IF Len(b) = 2 THEN
    <<Base64Char(b[1] \div 4), Base64Char((b[1] % 4) * 16 + b[2] \div 16),
      Base64Char((b[2] % 16) * 4), "=">>
  ELSE
    <<Base64Char(b[1] \div 4), Base64Char((b[1] % 4) * 16 + b[2] \div 16),
      Base64Char((b[2] % 16) * 4 + b[3] \div 64), Base64Char(b[3] % 64)>>
    \o Base64Encode(SubSeq(b, 4, Len(b)))

\* reader.result of readAsDataURL: "data:<type>;base64,<text>"; for an empty
\* file a browser may also give "data:" alone.
DataUrls(file, type) ==
  {<<"d", "a", "t", "a", ":">> \o type
     \o <<";", "b", "a", "s", "e", "6", "4", ",">> \o Base64Encode(file)}
  \cup (IF file = <<>> THEN {<<"d", "a", "t", "a", ":">>} ELSE {})

\* str.split(',')
RECURSIVE SplitComma(_)
FirstComma(str) ==
  IF \E k \in 1..Len(str) : str[k] = ","
  THEN CHOOSE k \in 1..Len(str) : str[k] = "," /\ \A j \in 1..(k - 1) : str[j] # ","
  ELSE 0
SplitComma(str) ==
  IF FirstComma(str) = 0 THEN <<str>>
  ELSE <<SubSeq(str, 1, FirstComma(str) - 1)>>
         \o SplitComma(SubSeq(str, FirstComma(str) + 1, Len(str)))

\* fileToBase64, line 250: result.split(',')[1] || ''
fileToBase64Result(result) ==
  LET parts == SplitComma(result)
  IN IF Len(parts) >= 2 THEN parts[2] ELSE <<>>

\* fileToBase64, lines 245-252: the handlers are set and the read is started;
\* the promise is pending until the reader calls one of them.
fileToBase64 ==
  /\ codec.stage = "file"
  /\ codec' = [codec EXCEPT !.stage = "reading"]
  /\ UNCHANGED <<defaultBranch, owner, repo, store, repoDefault, nextSha, calls,
                 setOutcome, urlOutcome>>

\* reader.onload, lines 248-251: the promise resolves with the text.
fileToBase64Onload ==
  /\ codec.stage = "reading"
  /\ \E result \in DataUrls(codec.file, codec.type) :
       codec' = [codec EXCEPT !.stage = "text", !.text = fileToBase64Result(result)]
  /\ UNCHANGED <<defaultBranch, owner, repo, store, repoDefault, nextSha, calls,
                 setOutcome, urlOutcome>>

\* reader.onerror, line 247: the read failed, the promise rejects.
fileToBase64Onerror ==
  /\ codec.stage = "reading"
  /\ codec' = [codec EXCEPT !.stage = "rejected", !.error = "File read error"]
  /\ UNCHANGED <<defaultBranch, owner, repo, store, repoDefault, nextSha, calls,
                 setOutcome, urlOutcome>>

\* The most line breaks put into a text.
MaxBreaks == 1
LineBreaks == {<<"\n">>, <<"\r", "\n">>}

\* The text comes back with a line break (LF or CRLF) put in at some place.
lineBreakInserted ==
  /\ codec.stage = "text"
  /\ codec.breaks < MaxBreaks
  /\ \E k \in 0..Len(codec.text), br \in LineBreaks :
       codec' = [codec EXCEPT !.breaks = @ + 1,
                   !.text = SubSeq(@, 1, k) \o br \o SubSeq(@, k + 1, Len(@))]
  /\ UNCHANGED <<defaultBranch, owner, repo, store, repoDefault, nextSha, calls,
                 setOutcome, urlOutcome>>

\* base64.replace(/\r?\n/g, ''): every LF goes, with a CR right before it.
RECURSIVE StripBreaks(_)
StripBreaks(str) ==
  IF str = <<>> THEN <<>>
  ELSE IF Head(str) = "\n" THEN StripBreaks(Tail(str))
  ELSE IF Head(str) = "\r" /\ Len(str) >= 2 /\ str[2] = "\n"
    THEN StripBreaks(SubSeq(str, 3, Len(str)))
  ELSE <<Head(str)>> \o StripBreaks(Tail(str))

\* atob: ASCII whitespace is dropped, then up to two "=" at the end of a text
\* whose length is a multiple of four.
IsNotSpace(ch) == ch \notin {" ", "\t", "\n", "\f", "\r"}
Unpadded(str) ==
  IF Len(str) % 4 # 0 \/ Len(str) = 0 THEN str
  ELSE IF str[Len(str)] # "=" THEN str
  ELSE IF str[Len(str) - 1] # "=" THEN SubSeq(str, 1, Len(str) - 1)
  ELSE SubSeq(str, 1, Len(str) - 2)
AtobInput(str) == Unpadded(SelectSeq(str, IsNotSpace))
\* atob throws InvalidCharacterError on such a text.
AtobThrows(str) ==
  \/ Len(AtobInput(str)) % 4 = 1
  \/ \E k \in 1..Len(AtobInput(str)) : ~IsBase64Char(AtobInput(str)[k])

\* The characters of atob's result, as their codes: six bits a character, the
\* bits left over at the end dropped.
RECURSIVE DecodeSextets(_)
DecodeSextets(v) ==
  IF Len(v) >= 4 THEN
    <<v[1] * 4 + v[2] \div 16, (v[2] % 16) * 16 + v[3] \div 4, (v[3] % 4) * 64 + v[4]>>
    \o DecodeSextets(SubSeq(v, 5, Len(v)))
  ELSE IF Len(v) = 3 THEN <<v[1] * 4 + v[2] \div 16, (v[2] % 16) * 16 + v[3] \div 4>>
  ELSE IF Len(v) = 2 THEN <<v[1] * 4 + v[2] \div 16>>
  ELSE <<>>
Atob(str) ==
  DecodeSextets([k \in 1..Len(AtobInput(str)) |-> Base64Value(AtobInput(str)[k])])

\* base64ToBlob, lines 273-277: bytes[i] = binary.charCodeAt(i)
base64ToBlobBytes(base64) == Atob(StripBreaks(base64))

base64ToBlob ==
  /\ codec.stage = "text"
  /\ codec' = IF AtobThrows(StripBreaks(codec.text))
              THEN [codec EXCEPT !.stage = "blob", !.threw = TRUE]
              ELSE [codec EXCEPT !.stage = "blob",
                                 !.blob = base64ToBlobBytes(codec.text)]
  /\ UNCHANGED <<defaultBranch, owner, repo, store, repoDefault, nextSha, calls,
                 setOutcome, urlOutcome>>

\* The files converted: up to MaxBytes bytes.
MaxBytes == 3
ByteValues == {0, 10, 77, 255}
Files == UNION {[1..n -> ByteValues] : n \in 0..MaxBytes}
\* File.type: none, a MIME type, and a type with a comma in it.
FileTypes == {<<>>, <<"a", "/", "b">>, <<"a", "/", "b", ",", "c">>}

CodecInit ==
  /\ owner = <<"o">>
  /\ repo = <<"r">>
  /\ defaultBranch = "main"
  /\ store = [b \in Branches |-> [p \in FilePaths |-> NoFile]]
  /\ repoDefault = "main"
  /\ nextSha = 2
  /\ calls = [c \in Callers |-> IdleCall]
  /\ setOutcome = [arg |-> Undefined, threw |-> FALSE, error |-> "", before |-> Undefined]
  /\ urlOutcome = [url |-> <<>>, matched |-> FALSE, path |-> <<>>, threw |-> FALSE]
  /\ \E file \in Files, type \in FileTypes :
       codec = [NoCodec EXCEPT !.stage = "file", !.file = file, !.type = type]

CodecNext ==
  \/ fileToBase64
  \/ fileToBase64Onload
  \/ fileToBase64Onerror
  \/ lineBreakInserted
  \/ base64ToBlob

CodecSpec == CodecInit /\ [][CodecNext]_vars

-----------------------------------------------------------------------------
(* Properties *)

GetContent == "repos.getContent"
PutContents == "repos.createOrUpdateFileContents"
DeleteContents == "repos.deleteFile"

\* The requests of kind `api` that a call has issued.
Issued(call, api) == {i \in DOMAIN call.reqs : call.reqs[i].api = api}

\* A saveFile call with skipCheck = false and no message.
PlainSave(call) ==
  call.op = "saveFile" /\ ~call.skipCheck /\ call.message = Undefined

\* C1: a saveFile call (skipCheck = false, no message) first probes the path on
\* the resolved branch and issues no write before the probe is answered; when
\* the path held no file there, it then issues exactly one
\* createOrUpdateFileContents call, with the message "Create {path}" and no sha.
C1_CreateWhenAbsent ==
  \A c \in Callers :
    LET call == calls[c] IN
    PlainSave(call) =>
      /\ call.reqs[1].api = GetContent
      /\ call.reqs[1].path = call.path
      /\ call.reqs[1].ref = call.useBranch
      /\ call.pc = "probe" => Len(call.reqs) = 1
      /\ call.reqs[1].seenKind = "notfound" =>
           /\ Len(call.reqs) = 2
           /\ Issued(call, PutContents) = {2}
           /\ call.reqs[2].path = call.path
           /\ call.reqs[2].message = "Create " \o call.path
           /\ call.reqs[2].sha = NoSha

\* A save of an absent path has returned: the file was created.
C1_Witness ==
  \E c \in Callers :
    /\ PlainSave(calls[c]) /\ calls[c].pc = "done"
    /\ calls[c].reqs[1].seenKind = "notfound"
    /\ calls[c].reqs[2].status = "created"
    /\ calls[c].outcome = "returned"

\* C2: when the probe of a saveFile call (skipCheck = false, no message) finds
\* a file with marker M, the call issues exactly one write, with the message
\* "Update {path}" and the sha M, and a write that succeeds has replaced the
\* file that was probed, the one on the resolved branch.
C2_UpdateReplacesExisting ==
  \A c \in Callers :
    LET call == calls[c] IN
    (PlainSave(call) /\ call.reqs[1].status = "file") =>
      /\ call.sha = call.reqs[1].seenSha
      /\ Len(call.reqs) = 2
      /\ Issued(call, PutContents) = {2}
      /\ call.reqs[2].message = "Update " \o call.path
      /\ call.reqs[2].sha = call.reqs[1].seenSha
      /\ call.outcome = "returned" => TargetBranch(call.reqs[2]) = call.reqs[1].ref

\* A deleteFile call whose probe yielded no marker has thrown 'File not found'
\* and has issued the probe only.
C3_State ==
  \A c \in Callers :
    LET call == calls[c] IN
    (call.op = "deleteFile" /\ call.pc # "probe" /\ call.sha = NoSha) =>
      /\ call.pc = "done"
      /\ call.outcome = "threw"
      /\ call.error = "File not found"
      /\ Len(call.reqs) = 1
      /\ Issued(call, DeleteContents) = {}
\* The step in which a deleteFile call ends at its probe leaves the remote as
\* it was.
C3_Step ==
  \A c \in Callers :
    (calls[c].op = "deleteFile" /\ calls[c].pc = "probe" /\ calls'[c].pc = "done")
      => store' = store /\ nextSha' = nextSha
\* C3: a deleteFile call whose probe yields no marker throws 'File not found'
\* and never issues a delete call; the remote store is left unchanged.
C3_DeleteNotFound == []C3_State /\ [][C3_Step]_vars

\* A delete of a path without a file has thrown.
C3_Witness ==
  \E c \in Callers :
    /\ calls[c].op = "deleteFile" /\ calls[c].pc = "done"
    /\ calls[c].reqs[1].seenKind = "notfound"
    /\ calls[c].error = "File not found"

\* C4: a deleteFile call whose probe returned the marker M issues exactly one
\* delete call, with the sha M and the message "Delete {path}"; it returns
\* {path, deleted: true} exactly when that call was answered with success, and
\* throws the remote's error when the call failed.
C4_DeleteWithMarker ==
  \A c \in Callers :
    LET call == calls[c] IN
    (call.op = "deleteFile" /\ call.sha # NoSha) =>
      /\ call.sha = call.reqs[1].seenSha
      /\ Len(call.reqs) = 2
      /\ Issued(call, DeleteContents) = {2}
      /\ call.reqs[2].path = call.path
      /\ call.reqs[2].sha = call.sha
      /\ call.reqs[2].message = "Delete " \o call.path
      /\ call.outcome = "returned" <=> call.reqs[2].status = "deleted"
      /\ call.outcome = "returned" => call.value = "{path, deleted: true}"
      /\ call.reqs[2].status \in {"failed", "conflict", "notfound"} =>
           call.outcome = "threw" /\ call.error = "HttpError" /\ call.value = Undefined
      /\ call.reqs[2].status = "sent" => call.outcome = "none"

\* A delete of an existing file has returned its confirmation.
C4_Witness ==
  \E c \in Callers :
    /\ calls[c].op = "deleteFile" /\ calls[c].pc = "done"
    /\ calls[c].sha # NoSha
    /\ calls[c].reqs[2].status = "deleted"
    /\ calls[c].value = "{path, deleted: true}"

\* C5: setDefaultBranch("") throws and the default branch is still what it
\* was before the call, after any sequence of earlier setDefaultBranch calls.
C5_EmptyRejected ==
  setOutcome.arg = "" =>
    /\ setOutcome.threw
    /\ setOutcome.error = "Branch name cannot be empty"
    /\ defaultBranch = setOutcome.before

\* setDefaultBranch("") has thrown on a handle whose default was set to "dev".
C5_Witness ==
  setOutcome.arg = "" /\ setOutcome.threw /\ setOutcome.before = "dev"

\* Two different callers whose current calls overlap in time: both are
\* saveFile calls with skipCheck = false for the same path on the same resolved
\* branch, and both probes found a file there.
ConcurrentSaves(c, d) ==
  /\ c # d
  /\ d \in calls[c].during \/ c \in calls[d].during
  /\ \A e \in {c, d} :
       /\ calls[e].op = "saveFile" /\ ~calls[e].skipCheck
       /\ calls[e].reqs[1].seenKind = "file"
  /\ calls[c].path = calls[d].path
  /\ calls[c].useBranch = calls[d].useBranch

\* The call's write was accepted by the remote.
WriteSucceeded(call) ==
  Len(call.reqs) >= 2 /\ call.reqs[2].status \in {"created", "updated"}

\* C6 as stated: of two concurrent saveFile calls on the same existing path at
\* most one write succeeds, under every interleaving of their probes and writes.
C6_AtMostOneSucceeds ==
  \A c, d \in Callers :
    ConcurrentSaves(c, d) => ~(WriteSucceeded(calls[c]) /\ WriteSucceeded(calls[d]))

\* C6, amended: of two concurrent saveFile calls on the same existing path whose
\* probes read the same revision (both probes were answered before either
\* write was applied) at most one write succeeds; a write to an existing file
\* succeeds only with the marker that is current when it is applied; a call
\* whose write the remote refuses throws the remote's error, having issued one
\* probe and one write and nothing more.
C6_SameRevisionOneWinner ==
  /\ \A c, d \in Callers :
       (ConcurrentSaves(c, d)
          /\ calls[c].reqs[1].seenSha = calls[d].reqs[1].seenSha)
       => ~(WriteSucceeded(calls[c]) /\ WriteSucceeded(calls[d]))
  /\ \A c \in Callers :
       LET call == calls[c] IN
       (call.op = "saveFile" /\ ~call.skipCheck) =>
         /\ Len(call.reqs) <= 2
         /\ Issued(call, GetContent) = {1}
         /\ Issued(call, PutContents) \subseteq {2}
         /\ (Len(call.reqs) = 2 /\ call.reqs[2].status = "updated") =>
              call.reqs[2].sha = call.reqs[2].seenSha
         /\ (Len(call.reqs) = 2
               /\ call.reqs[2].status \in {"conflict", "rejected", "failed"}) =>
              call.pc = "done" /\ call.outcome = "threw" /\ call.error = "HttpError"

\* Two concurrent saves probed the same revision; one has replaced the file
\* and the other was refused with the conflict.
C6_Witness ==
  \E c, d \in Callers :
    /\ ConcurrentSaves(c, d)
    /\ calls[c].reqs[1].seenSha = calls[d].reqs[1].seenSha
    /\ WriteSucceeded(calls[c])
    /\ Len(calls[d].reqs) = 2 /\ calls[d].reqs[2].status = "conflict"
    /\ calls[d].outcome = "threw"

\* C7: every write request of saveFile and every delete request of deleteFile
\* lands on the resolved branch, the branch the probe before it read from.
C7_WriteOnResolvedBranch ==
  \A c \in Callers :
    LET call == calls[c] IN
    \A i \in Issued(call, PutContents) \cup Issued(call, DeleteContents) :
      /\ TargetBranch(call.reqs[i]) = call.useBranch
      /\ i > 1 => TargetBranch(call.reqs[i]) = call.reqs[1].ref

\* A call started without a branch argument sends its read to the handle's
\* default branch.
C8_Step ==
  \A c \in Callers :
    (Ready(c) /\ calls'[c].pc \in {"probe", "read"} /\ calls'[c].branch = Undefined)
      => calls'[c].reqs[1].ref = defaultBranch
\* C8: every call that omits the branch argument (listFiles, downloadFile,
\* getFileSha, saveFile, deleteFile) reads from the handle's default branch as
\* it is when the call is made, not from a fixed branch name.
C8_OmittedBranchReadsDefault == [][C8_Step]_vars

\* C9: setDefaultBranch with a whitespace-only name throws and leaves the
\* default branch as it was.
C9_BlankRejected ==
  setOutcome.arg = " " => setOutcome.threw /\ defaultBranch = setOutcome.before

\* C10: for a handle on OWNER/REPO, getPathFromDownloadUrl returns the path
\* after the branch segment, without any '?query', for every URL
\* https://raw.githubusercontent.com/OWNER/REPO/<branch>/<path>[?query], and
\* null for every such URL whose owner or repository segment differs from
\* OWNER/REPO.
C10_PathOfOwnUrlOnly ==
  \A o \in UrlOwners, r \in UrlRepos, b \in BranchSegments,
     p \in PathTexts, q \in QueryTexts :
    urlOutcome.url = RawUrl(o, r, b, p, q) =>
      IF o = owner /\ r = repo
      THEN urlOutcome.matched /\ urlOutcome.path = p
      ELSE ~urlOutcome.matched

\* C11: a listFiles call whose path resolves to a single file returns an empty
\* sequence (it neither throws nor returns a one-element sequence); it returns
\* the remote's listing, unchanged, exactly when the payload is a list; a
\* failed read is thrown.
C11_ListOnlyLists ==
  \A c \in Callers :
    LET call == calls[c] IN
    (call.op = "listFiles" /\ call.pc = "done") =>
      /\ call.reqs[1].status = "file" =>
           call.outcome = "returned" /\ call.items = <<>>
      /\ call.reqs[1].status = "list" =>
           /\ call.outcome = "returned"
           /\ call.items = Entries(store, call.reqs[1].ref, FilePaths)
           /\ call.items # <<>>
      /\ call.items # <<>> => call.reqs[1].status = "list"
      /\ call.reqs[1].status \in {"notfound", "failed"} => call.outcome = "threw"

\* listFiles on the path of an existing file has returned the empty sequence.
C11_Witness ==
  \E c \in Callers :
    /\ calls[c].op = "listFiles" /\ calls[c].pc = "done"
    /\ calls[c].path \in FilePaths
    /\ calls[c].reqs[1].status = "file"
    /\ calls[c].outcome = "returned" /\ calls[c].items = <<>>

\* C12: a getFileSha call never throws: it returns the marker when the path
\* resolves to a single file, and undefined when the path resolves to a
\* folder listing and whenever the read fails (absence, permission, network).
C12_ProbeNeverFails ==
  \A c \in Callers :
    LET call == calls[c] IN
    call.op = "getFileSha" =>
      /\ call.outcome # "threw"
      /\ call.pc = "done" =>
           /\ call.outcome = "returned"
           /\ call.reqs[1].status = "file" =>
                call.retSha = call.reqs[1].seenSha /\ call.retSha # NoSha
           /\ call.reqs[1].status \in {"list", "notfound", "failed"} =>
                call.retSha = NoSha

\* The read of an existing file failed and getFileSha returned undefined.
C12_Witness ==
  \E c \in Callers :
    /\ calls[c].op = "getFileSha" /\ calls[c].pc = "done"
    /\ calls[c].reqs[1].status = "failed"
    /\ calls[c].reqs[1].seenKind = "file"
    /\ calls[c].outcome = "returned" /\ calls[c].retSha = NoSha

\* C13: base64ToBlob(fileToBase64(X)) gives exactly the bytes of X, for every
\* byte content X (the empty file too), also when LF or CRLF line breaks were
\* put into the base64 text at any place.
C13_RoundTrip ==
  codec.stage = "blob" => ~codec.threw /\ codec.blob = codec.file

\* A saveFile call with skipCheck = true has sent a write and nothing else: no
\* probe, no sha, and the message "Create {path}" when none was given.
C14_State ==
  \A c \in Callers :
    LET call == calls[c] IN
    (call.op = "saveFile" /\ call.skipCheck) =>
      /\ Issued(call, GetContent) = {}
      /\ Len(call.reqs) = 1
      /\ call.reqs[1].api = PutContents
      /\ call.reqs[1].path = call.path
      /\ call.reqs[1].sha = NoSha
      /\ call.message = Undefined => call.reqs[1].message = "Create " \o call.path
\* The step that answers such a write while the path holds a file on the
\* resolved branch: the call throws and the store stays as it is.
C14_Step ==
  \A c \in Callers :
    LET call == calls[c] IN
    (/\ call.op = "saveFile" /\ call.skipCheck
     /\ call.pc = "write" /\ calls'[c].pc = "done"
     /\ store[call.useBranch][call.path].kind = "file")
      => calls'[c].outcome = "threw" /\ store' = store
\* C14: saveFile with skipCheck = true issues no probe and exactly one request,
\* a write with no sha and (no message given) the message "Create {path}",
\* whether or not the path exists; when the path exists the remote rejects the
\* write, the caller gets the rejection and the stored file is unchanged.
C14_SkipCheckCreateOnly == []C14_State /\ [][C14_Step]_vars

GetRepo == "repos.get"
\* The read requests and the write/delete requests a call has issued.
ReadsOf(call) == Issued(call, GetContent) \cup Issued(call, GetRepo)
WritesOf(call) == Issued(call, PutContents) \cup Issued(call, DeleteContents)

\* C15: every operation issues at most one read request and then at most one
\* write/delete request, in that order, and ends when the last of them is
\* answered: getRepoInfo, listFiles, getFileSha and downloadFile issue exactly
\* one read and no write; saveFile and deleteFile at most one probe and then at
\* most one write/delete; a request that failed is not issued again.
C15_OneReadThenOneWrite ==
  \A c \in Callers :
    LET call == calls[c] IN
    call.op # "none" =>
      /\ Cardinality(ReadsOf(call)) <= 1
      /\ Cardinality(WritesOf(call)) <= 1
      /\ \A i \in ReadsOf(call), j \in WritesOf(call) : i < j
      /\ call.op \in {"getRepoInfo", "listFiles", "getFileSha", "downloadFile"} =>
           Len(call.reqs) = 1 /\ ReadsOf(call) = {1}
      /\ call.op = "getRepoInfo" => call.reqs[1].api = GetRepo
      /\ call.op = "saveFile" =>
           /\ Issued(call, DeleteContents) = {} /\ Issued(call, GetRepo) = {}
           /\ call.skipCheck <=> ReadsOf(call) = {}
      /\ call.op = "deleteFile" =>
           Issued(call, PutContents) = {} /\ ReadsOf(call) = {1}
      /\ \A i \in DOMAIN call.reqs : call.reqs[i].status = "sent" => i = Len(call.reqs)
      /\ LastReq(call).status # "sent" <=> call.pc = "done"
      /\ call.pc = "done" => call.outcome \in {"returned", "threw"}

\* A deleteFile call has ended on a refused delete, after one probe and one
\* delete.
C15_Witness ==
  \E c \in Callers :
    LET call == calls[c] IN
    /\ call.op = "deleteFile" /\ call.pc = "done" /\ call.outcome = "threw"
    /\ Len(call.reqs) = 2 /\ call.reqs[2].api = DeleteContents
    /\ call.reqs[2].status = "failed"

\* The call's probe failed (no 'not found', the request itself) while the
\* probed path held a file.
ProbeFailedOnFile(call) ==
  /\ call.op \in {"saveFile", "deleteFile"} /\ ~call.skipCheck
  /\ call.reqs[1].api = GetContent
  /\ call.reqs[1].status = "failed" /\ call.reqs[1].seenKind = "file"

\* C16: when the probe fails for a reason other than absence while the path
\* holds a file, saveFile (skipCheck = false) takes the path for absent: it
\* issues a write with no sha and the message "Create {path}", the remote
\* rejects that write, and the file keeps its content and marker; deleteFile
\* throws 'File not found' although the file exists.
C16_FailedProbeMeansAbsent ==
  \A c \in Callers :
    LET call == calls[c] IN
    ProbeFailedOnFile(call) =>
      /\ call.sha = NoSha
      /\ store[call.reqs[1].ref][call.path].kind = "file"
      /\ store[call.reqs[1].ref][call.path].sha = call.reqs[1].seenSha
      /\ call.op = "saveFile" =>
           /\ Len(call.reqs) = 2
           /\ call.reqs[2].api = PutContents
           /\ call.reqs[2].sha = NoSha
           /\ call.message = Undefined => call.reqs[2].message = "Create " \o call.path
           /\ call.reqs[2].status \in {"sent", "rejected", "failed"}
           /\ call.pc = "done" => call.outcome = "threw"
      /\ call.op = "deleteFile" =>
           /\ Len(call.reqs) = 1
           /\ call.pc = "done" /\ call.outcome = "threw"
           /\ call.error = "File not found"

\* A write or delete accepted on an existing file carried the marker the file
\* had when it was applied, and that marker is the one the call's own probe
\* obtained; a write sent without a probe never replaces a file.
C17_State ==
  \A c \in Callers :
    LET call == calls[c] IN
    \A i \in WritesOf(call) :
      (call.reqs[i].seenKind = "file"
         /\ call.reqs[i].status \in {"created", "updated", "deleted"}) =>
        /\ call.reqs[i].sha = call.reqs[i].seenSha
        /\ ~call.skipCheck
        /\ i = 2 /\ call.reqs[1].status = "file"
        /\ call.reqs[i].sha = call.reqs[1].seenSha
\* The revision a caller creates while another call stands between its probe
\* and its write or delete has a marker that the other call's pending request
\* does not carry.
C17_Step ==
  \A c, d \in Callers :
    (/\ c # d
     /\ calls[d].pc = "write" /\ calls'[d].outcome = "returned"
     /\ calls[c].pc \in {"write", "delete"})
      => /\ store'[TargetBranch(LastReq(calls[d]))][calls[d].path].sha = nextSha
         /\ LastReq(calls[c]).sha # nextSha
\* C17: no lost update.  Under every interleaving of concurrent saveFile and
\* deleteFile calls on one path, every write or delete that succeeds on an
\* existing file carried the marker current when it was applied, and a
\* revision created by another caller between a call's probe and its write is
\* never overwritten or deleted by that call.
C17_NoLostUpdate == []C17_State /\ [][C17_Step]_vars

\* A call was refused on the revision that another caller created between its
\* probe and its write or delete.
C17_Witness ==
  \E c, d \in Callers :
    /\ c # d
    /\ d \in calls[c].during \/ c \in calls[d].during
    /\ calls[c].pc = "done" /\ Len(calls[c].reqs) = 2
    /\ calls[c].reqs[1].status = "file"
    /\ calls[c].reqs[2].status = "conflict"
    /\ calls[c].reqs[2].seenSha # calls[c].reqs[1].seenSha
    /\ calls[d].op = "saveFile" /\ calls[d].outcome = "returned"
    /\ calls[d].retSha = calls[c].reqs[2].seenSha
    /\ calls[c].outcome = "threw"
====
